---- MODULE Spec2Model ----
(***************************************************************************)
(* A model of the Lamela browser extension's background worker:            *)
(*   src/src/ws.ts             the persistent WebSocket, its reconnect and *)
(*                             keepalive timers, sendWebSocketMessage      *)
(*   src/src/commandHandler.ts CommandHandler.processCommand and executor  *)
(*   src/src/background.ts     keepAlive, the caller of initializeWebSocket*)
(*                                                                         *)
(* One action is one run-to-completion task of the JavaScript event loop:  *)
(* a socket event handler, a timer callback or an exported function call.  *)
(* Timers carry their delay but fire at any moment: waiting is abstracted  *)
(* to "some time later".                                                   *)
(***************************************************************************)
EXTENDS Integers, Sequences, FiniteSets, TLC

\* ------------------------------------------------------------------ bounds
\* keepAlive invocations in flight at one time (startup, onInstalled, alarm).
MaxRuns == 2

\* Live persistent sockets plus pending reconnect timers the callers of
\* initializeWebSocket may build up (every one of them is a future socket).
MaxSockets == 2
\* Running keepalive intervals that are tracked one by one; above this many
\* two leaked intervals are merged (they behave alike: each pings `socket`).
MaxIntervals == 1

\* COMMAND packets the server sends in one run.
MaxCommands == 1
MaxOverlap == 2

\* --------------------------------------------------------------- constants
NULL == 0
\* chrome.storage.local without the key: storage.accessCode is undefined,
\* which `||` and `!` treat like the empty string.
Absent == ""
RECONNECT_DELAY_MS == 5000
SEND_TIMEOUT_MS == 5000
\* commandHandler.ts:208  waitForTabLoad resolves anyway after this long
TAB_LOAD_TIMEOUT_MS == 30000
\* commandHandler.ts:393  the injected code of waitForSelector polls this often
POLL_INTERVAL_MS == 100

\* Access codes a caller may pass (generateAccessCode yields six digits).
AccessCodes == {"111111", "222222"}

SocketIds == 1..(MaxSockets + 1)
TimerIds == 1..(MaxSockets + 1)

VARIABLES
  sockets,          \* the persistent WebSocket objects that can still matter:
                    \*   id -> [readyState, accessCode (closure), registered]
  socket,           \* ws.ts `socket`: NULL or the id of a WebSocket
  reconnectTimeout, \* ws.ts `reconnectTimeout`: NULL or a timer handle
  pingInterval,     \* ws.ts `pingInterval`: NULL or an interval handle
  timeouts,         \* pending setTimeout timers of onclose: id -> record
  intervals,        \* number of running setInterval timers of onopen
  commands,         \* processCommand invocations: commandId ->
                    \*   [command, phase, results (COMMAND_RESULTs emitted)]
  temps,            \* temporary WebSockets of sendWebSocketMessage: id ->
                    \*   [readyState, promise, timer, data, sent, awaiter]
  closeCalled,      \* history: closeWebSocket ran and no caller has
                    \*   called initializeWebSocket since
  store,            \* chrome.storage.local: the value under "accessCode",
                    \*   NULL while the key is absent
  runs,             \* keepAlive invocations that have not ended: id ->
                    \*   [pc, read (what storage.get yields), accessCode,
                    \*    alone (history: it began with no other in flight)]
  generations,      \* history: calls of generateAccessCode so far
  now,              \* milliseconds since the timed wait in `wait` began
  wait,             \* the timed wait of one execution, step by step: its
                    \*   timer, its tab-update listener and its promise
  wire,             \* a packet on its way through JSON.stringify and
                    \*   JSON.parse: [stage, p (packet), text, q (decoded)]
  ev,               \* the handler that ran in the last step; for a step
                    \*   that ends an execution, the command and its outcome;
                    \*   for a step of onmessage, the text received
  out               \* what that handler sent: <<[via, on, msg]>>

transport == <<sockets, socket, reconnectTimeout, pingInterval, timeouts,
               intervals, closeCalled>>

\* The clock and the timed wait of the executor.
timing == <<now, wait>>

\* What keepAlive of background.ts works on.
identity == <<store, runs, generations>>

vars == <<sockets, socket, reconnectTimeout, pingInterval, timeouts,
          intervals, commands, temps, closeCalled, store, runs, generations,
          now, wait, wire, ev, out>>

\* The record of a step: the handler, and for the step in which an executor
\* run ends its commandId, command name and outcome.
NoOutcome == [kind |-> "none", value |-> [t |-> "null"], message |-> "", ops |-> <<>>]
Ev(op) == [op |-> op, c |-> 0, command |-> "", outcome |-> NoOutcome, data |-> ""]
EvRun(op, c, command, outcome) ==
  [op |-> op, c |-> c, command |-> command, outcome |-> outcome, data |-> ""]
\* The step of onmessage: also the text it received.
EvMessage(op, c, command, outcome, data) ==
  [op |-> op, c |-> c, command |-> command, outcome |-> outcome, data |-> data]

\* ------------------------------------------------------------ WebSocket
\* new WebSocket(WS_URL) inside initializeWebSocket; the handlers close over
\* accessCode.  `registered` records the registration codes sent on it.
NewWebSocket(accessCode) ==
  [readyState |-> "CONNECTING", accessCode |-> accessCode, registered |-> {}]

Min(S) == CHOOSE x \in S : \A y \in S : x <= y

FreshSocket(socks) == Min(SocketIds \ DOMAIN socks)

\* A CLOSED WebSocket has fired its last event; unless `socket` still refers
\* to it nothing can reach it any more.
Collect(socks, g) ==
  [i \in {j \in DOMAIN socks : socks[j].readyState # "CLOSED" \/ j = g}
     |-> socks[i]]

\* WebSocket.close(): CONNECTING and OPEN become CLOSING, the close event
\* follows in a later task.
WsClose(socks, s) ==
  IF socks[s].readyState \in {"CONNECTING", "OPEN"}
  THEN [socks EXCEPT ![s].readyState = "CLOSING"]
  ELSE socks

Live(socks) == {s \in DOMAIN socks : socks[s].readyState \in {"CONNECTING", "OPEN"}}

\* ----------------------------------------------------------------- timers
FreshTimer(pending) ==
  Min(TimerIds \ (DOMAIN pending \cup {reconnectTimeout}))

\* clearTimeout(h): a handle of a timer that has fired clears nothing.
ClearTimeout(pending, h) ==
  [i \in DOMAIN pending \ {h} |-> pending[i]]

\* setInterval / clearInterval on the count of running intervals.
SetInterval(n) == IF n < MaxIntervals + 1 THEN n + 1 ELSE n
ClearInterval(n) == n - 1

\* Anything that will become a socket: callers may not build up more.
Tokens ==
  Cardinality({s \in DOMAIN sockets : sockets[s].readyState # "CLOSED"})
    + Cardinality(DOMAIN timeouts)

\* enum PacketType (types.ts); a member the enum lacks reads as undefined.
PacketType ==
  [COMMAND |-> "COMMAND", COMMAND_RESULT |-> "COMMAND_RESULT", INIT |-> "INIT",
   EXIT |-> "EXIT", PING |-> "PING", PONG |-> "PONG", ERROR |-> "ERROR"]

PacketTypeMember(name) ==
  IF name \in DOMAIN PacketType THEN PacketType[name] ELSE "undefined"

\* ws.ts:103-106  { type: PacketType.REGISTER, data: { accessCode } }
RegisterMessage(accessCode) ==
  [type |-> PacketTypeMember("REGISTER"), accessCode |-> accessCode]

\* ------------------------------------------------------- initializeWebSocket
AlreadyOpen_Never == FALSE

\* ws.ts:77  if (socket && socket.readyState === WebSocket.OPEN) return;
AlreadyOpen == socket # NULL /\ sockets[socket].readyState = "OPEN"

\* initializeWebSocket(accessCode); `pending` is the timer table as the
\* caller leaves it (the reconnect timer has removed itself before calling).
InitializeWebSocket(accessCode, pending) ==
  IF AlreadyOpen
  THEN /\ timeouts' = pending
       /\ UNCHANGED <<sockets, socket, reconnectTimeout, pingInterval, intervals>>
  ELSE LET id == FreshSocket(Collect(sockets, NULL)) IN
       /\ timeouts' = IF reconnectTimeout # NULL
                      THEN ClearTimeout(pending, reconnectTimeout)
                      ELSE pending
       /\ reconnectTimeout' = NULL
       /\ intervals' = IF pingInterval # NULL THEN ClearInterval(intervals)
                       ELSE intervals
       /\ pingInterval' = NULL
       /\ sockets' = (id :> NewWebSocket(accessCode)) @@ Collect(sockets, NULL)
       /\ socket' = id

\* keepAlive (background.ts:19) or any other caller of the exported function.
KeepAliveInit(accessCode) ==
  /\ Tokens < MaxSockets
  /\ UNCHANGED <<commands, temps, identity, timing, wire>>
  /\ InitializeWebSocket(accessCode, timeouts)
  /\ out' = <<>>
  /\ closeCalled' = FALSE
  /\ ev' = Ev("initializeWebSocket")

\* ------------------------------------------------------------ socket.onopen
\* The handler of socket s; note that it sends on `socket`, the module
\* variable, which need not be s.  WebSocket.send throws InvalidStateError on
\* a CONNECTING socket (the handler then ends before setInterval) and
\* discards the data on a CLOSING or CLOSED one.
OnOpen(s) ==
  LET socks == [sockets EXCEPT ![s].readyState = "OPEN"]
      msg == RegisterMessage(sockets[s].accessCode)
  IN
  /\ timeouts' = timeouts
  /\ UNCHANGED <<socket, reconnectTimeout>>
  /\ IF socket = NULL \/ socks[socket].readyState = "CONNECTING"
     THEN /\ sockets' = socks
          /\ out' = <<>>
          /\ UNCHANGED <<pingInterval, intervals>>
     ELSE /\ IF socks[socket].readyState = "OPEN"
             THEN /\ sockets' = [socks EXCEPT ![socket].registered =
                                    @ \cup {msg.accessCode}]
                  /\ out' = <<[via |-> "socket", on |-> socket, msg |-> msg]>>
             ELSE /\ sockets' = socks
                  /\ out' = <<>>
          /\ pingInterval' = 1
          /\ intervals' = SetInterval(intervals)

SocketOpens(s) ==
  /\ UNCHANGED <<commands, temps, identity, timing, wire>>
  /\ s \in DOMAIN sockets
  /\ sockets[s].readyState = "CONNECTING"
  /\ OnOpen(s)
  /\ ev' = Ev("onopen")
  /\ UNCHANGED closeCalled

\* The keepalive interval callback (ws.ts:114-120).
PingTick ==
  /\ UNCHANGED <<commands, temps, identity, timing, wire>>
  /\ intervals > 0
  /\ out' = IF socket # NULL /\ sockets[socket].readyState = "OPEN"
            THEN <<[via |-> "socket", on |-> socket, msg |-> [type |-> "ping"]]>>
            ELSE <<>>
  /\ ev' = Ev("pingInterval")
  /\ UNCHANGED <<sockets, socket, reconnectTimeout, pingInterval, timeouts,
                 intervals, closeCalled>>

\* ----------------------------------------------------------- socket.onclose
OnClose_GiveUpAfterFailure(s, wasOpen) ==
  LET id == FreshTimer(timeouts) IN
  /\ intervals' = IF pingInterval # NULL THEN ClearInterval(intervals)
                  ELSE intervals
  /\ pingInterval' = NULL
  /\ reconnectTimeout' = IF wasOpen THEN id ELSE reconnectTimeout
  /\ timeouts' = IF wasOpen
                 THEN (id :> [accessCode |-> sockets[s].accessCode,
                              delay |-> RECONNECT_DELAY_MS,
                              wasOpen |-> wasOpen]) @@ timeouts
                 ELSE timeouts
  /\ sockets' = Collect([sockets EXCEPT ![s].readyState = "CLOSED"], socket)
  /\ UNCHANGED socket
  /\ out' = <<>>

\* The handler of socket s (ws.ts:148-161); the reconnect timer closes over
\* accessCode.  wasOpen: the connection had been established (annotation).
OnClose(s, wasOpen) ==
  LET id == FreshTimer(timeouts) IN
  /\ intervals' = IF pingInterval # NULL THEN ClearInterval(intervals)
                  ELSE intervals
  /\ pingInterval' = NULL
  /\ reconnectTimeout' = id
  /\ timeouts' = (id :> [accessCode |-> sockets[s].accessCode,
                         delay |-> RECONNECT_DELAY_MS,
                         wasOpen |-> wasOpen]) @@ timeouts
  /\ sockets' = Collect([sockets EXCEPT ![s].readyState = "CLOSED"], socket)
  /\ UNCHANGED socket
  /\ out' = <<>>

\* The connection attempt fails: error event (onerror only logs), then close.
ConnectFails(s) ==
  /\ UNCHANGED <<commands, temps, identity, timing, wire>>
  /\ s \in DOMAIN sockets
  /\ sockets[s].readyState = "CONNECTING"
  /\ OnClose(s, FALSE)
  /\ ev' = Ev("onclose")
  /\ UNCHANGED closeCalled

ConnectionDrops_Cancels(s) ==
  /\ commands' = [c \in DOMAIN commands |->
                    IF commands[c].phase = "executing"
                    THEN [commands[c] EXCEPT !.phase = "rejected", !.command = ""]
                    ELSE commands[c]]
  /\ UNCHANGED <<temps, identity, timing, wire>>
  /\ s \in DOMAIN sockets
  /\ sockets[s].readyState = "OPEN"
  /\ OnClose(s, TRUE)
  /\ ev' = Ev("onclose")
  /\ UNCHANGED closeCalled

\* An established connection is lost (server or network): the unexpected close.
ConnectionDrops(s) ==
  /\ UNCHANGED <<commands, temps, identity, timing, wire>>
  /\ s \in DOMAIN sockets
  /\ sockets[s].readyState = "OPEN"
  /\ OnClose(s, TRUE)
  /\ ev' = Ev("onclose")
  /\ UNCHANGED closeCalled

\* The close event of a socket closed by close().
CloseCompletes(s) ==
  /\ UNCHANGED <<commands, temps, identity, timing, wire>>
  /\ s \in DOMAIN sockets
  /\ sockets[s].readyState = "CLOSING"
  /\ OnClose(s, FALSE)
  /\ ev' = Ev("onclose")
  /\ UNCHANGED closeCalled

\* The reconnect timer fires (ws.ts:158-160).
ReconnectTimerFires(t) ==
  /\ UNCHANGED <<commands, temps, identity, timing, wire>>
  /\ t \in DOMAIN timeouts
  /\ InitializeWebSocket(timeouts[t].accessCode, ClearTimeout(timeouts, t))
  /\ out' = <<>>
  /\ ev' = Ev("reconnectTimer")
  /\ UNCHANGED closeCalled

\* ------------------------------------------------------------ closeWebSocket
CloseWebSocket ==
  /\ UNCHANGED <<commands, temps, identity, timing, wire>>
  /\ sockets' = IF socket # NULL THEN WsClose(sockets, socket) ELSE sockets
  /\ socket' = NULL
  /\ timeouts' = IF reconnectTimeout # NULL
                 THEN ClearTimeout(timeouts, reconnectTimeout)
                 ELSE timeouts
  /\ reconnectTimeout' = NULL
  /\ intervals' = IF pingInterval # NULL THEN ClearInterval(intervals)
                  ELSE intervals
  /\ pingInterval' = NULL
  /\ closeCalled' = TRUE
  /\ ev' = Ev("closeWebSocket")
  /\ out' = <<>>

\* ------------------------------------------------------ JavaScript values
Null == [t |-> "null"]
Undefined == [t |-> "undefined"]
Str(v) == [t |-> "string", v |-> v]
Obj(v) == [t |-> "object", v |-> v]

\* `x || undefined`
OrUndefined(x) == IF x = Null \/ x = Undefined \/ x = Str("") THEN Undefined ELSE x

\* ---------------------------------------------------------- the executor
\* enum CommandType (types.ts).
CommandType ==
  [GOTO |-> "goto", RELOAD |-> "reload", BACK |-> "back", FORWARD |-> "forward",
   CLICK |-> "click", TYPE |-> "type", SELECT |-> "select", HOVER |-> "hover",
   FOCUS |-> "focus", SCREENSHOT |-> "screenshot", PDF |-> "pdf",
   GET_TEXT |-> "getText", GET_HTML |-> "getHtml",
   GET_ATTRIBUTE |-> "getAttribute", EVALUATE |-> "evaluate",
   WAIT_FOR_SELECTOR |-> "waitForSelector",
   WAIT_FOR_NAVIGATION |-> "waitForNavigation",
   WAIT_FOR_TIMEOUT |-> "waitForTimeout", EXIT |-> "exit"]

CommandTypes == {CommandType[k] : k \in DOMAIN CommandType}

\* The command names the server may send: the enumeration and a stranger.
CommandNames == CommandTypes \cup {"unknownThing"}

\* The browser as one execution finds it.
\*   hasTab    chrome.tabs.query yields an active tab
\*   injected  chrome.tabs.executeScript could inject (no lastError)
\*   found     the selector matches an element of the page
\*   reported  the platform reports an exception of the injected code
\*             through chrome.runtime.lastError (else the result is null)
\*   loaded    the tab reaches status 'complete' before the wait times out
\*   awaited   the platform waits for a Promise the injected code evaluates
\*             to and yields its outcome (else the Promise object arrives,
\*             serialised as an empty object)
\*   fnThrows  the function given to evaluate throws when it is called
Envs == [hasTab : BOOLEAN, injected : BOOLEAN, found : BOOLEAN,
         reported : BOOLEAN, loaded : BOOLEAN, awaited : BOOLEAN,
         fnThrows : BOOLEAN]

\* The browsers that differ in something an execution can ask: without a tab
\* nothing else is asked, and without injection nothing of the page.
AskedEnvs ==
  {e \in Envs :
     /\ ~e.hasTab => ~e.injected /\ ~e.loaded
     /\ ~e.injected => ~e.found /\ ~e.reported /\ ~e.awaited /\ ~e.fnThrows}

\* The commands whose injected code looks a selector up.
SelectorCommands ==
  {"click", "type", "select", "hover", "focus", "getText", "getHtml",
   "getAttribute", "waitForSelector"}

Return(v, ops) == [kind |-> "return", value |-> v, message |-> "", ops |-> ops]
Throw(m, ops) == [kind |-> "throw", value |-> Null, message |-> m, ops |-> ops]

\* What the injected code of a command does in the page: it returns a value
\* or throws (`promise`: the value is a Promise that resolves to v or, with
\* threw, rejects with v).  The code of evaluate is an inner function
\* expression that catches what the given function throws and evaluates to
\* { error }, but the wrapper of executeScriptInActiveTab does not return the
\* value of that expression.  The Promise of waitForSelector rejects when its
\* timeout has passed without a match.
PageScript(command, env) ==
  CASE command \in {"back", "forward"} ->
         [threw |-> FALSE, promise |-> FALSE, v |-> Obj("{success:true}")]
    [] command \in {"click", "hover", "focus"} ->
         IF env.found
         THEN [threw |-> FALSE, promise |-> FALSE, v |-> Obj("{" \o command \o ",selector}")]
         ELSE [threw |-> TRUE, promise |-> FALSE, v |-> Str("Element not found: h1")]
    [] command = "type" ->
         IF env.found
         THEN [threw |-> FALSE, promise |-> FALSE, v |-> Obj("{filled:true,selector}")]
         ELSE [threw |-> TRUE, promise |-> FALSE, v |-> Str("Form element not found: h1")]
    [] command = "select" ->
         IF env.found
         THEN [threw |-> FALSE, promise |-> FALSE, v |-> Obj("{selected:true,selector,value}")]
         ELSE [threw |-> TRUE, promise |-> FALSE, v |-> Str("Select element not found: h1")]
    [] command \in {"getText", "getHtml", "getAttribute"} ->
         IF env.found
         THEN [threw |-> FALSE, promise |-> FALSE, v |-> Obj("[" \o command \o "]")]
         ELSE [threw |-> TRUE, promise |-> FALSE, v |-> Str("No elements found: h1")]
    [] command = "evaluate" ->
         [threw |-> FALSE, promise |-> FALSE, v |-> Undefined]
    [] command = "waitForSelector" ->
         IF env.found
         THEN [threw |-> FALSE, promise |-> TRUE, v |-> Obj("{found:true,selector}")]
         ELSE [threw |-> TRUE, promise |-> TRUE,
               v |-> Str("Timeout waiting for element: h1")]

\* chrome.tabs.query({active, currentWindow}) and whether it yields a tab.
TabsQuery(env) == <<"tabs.query", IF env.hasTab THEN "tab" ELSE "noTab">>

\* What the page did, as far as the claims need it: the selector lookup and
\* its answer, the call of the function given to evaluate.
PageOps(command, env) ==
  IF command \in SelectorCommands
  THEN <<IF env.found THEN "page.match" ELSE "page.noMatch">>
  ELSE IF command = "evaluate"
  THEN <<IF env.fnThrows THEN "page.fnThrows" ELSE "page.fnReturns">>
  ELSE <<>>

\* executeScriptInActiveTab (commandHandler.ts:451-473).
ExecuteScriptInActiveTab(command, env) ==
  IF ~env.hasTab
  THEN Throw("No active tab found", TabsQuery(env))
  ELSE IF ~env.injected
  THEN Throw("Cannot access contents of the page",
             TabsQuery(env) \o <<"tabs.executeScript">>)
  ELSE LET ops == TabsQuery(env) \o <<"tabs.executeScript">> \o PageOps(command, env)
           page == PageScript(command, env)
       IN IF page.promise /\ ~env.awaited
          THEN Return(Obj("{}"), ops)
          ELSE IF page.threw
               THEN IF env.reported THEN Throw(page.v.v, ops)
                    ELSE Return(Null, ops)
               ELSE Return(page.v, ops)

\* navigateToUrl: without an active tab it creates one.
NavigateToUrl(env) ==
  Return(Obj("{success:true,url}"),
         TabsQuery(env) \o
           <<IF env.hasTab THEN "tabs.update" ELSE "tabs.create">>)

ReloadPage(env) ==
  IF ~env.hasTab THEN Throw("No active tab found", TabsQuery(env))
  ELSE Return(Obj("{success:true}"), TabsQuery(env) \o <<"tabs.reload">>)

\* evaluateFunction: a result with a truthy error property is re-thrown.
EvaluateFunction(env) ==
  LET r == ExecuteScriptInActiveTab("evaluate", env) IN
  IF r.kind = "return" /\ r.value.t = "object" /\ r.value.v = "{error}"
  THEN Throw("error in page", r.ops)
  ELSE r

WaitForNavigation(env) ==
  IF ~env.hasTab THEN Throw("No active tab found", TabsQuery(env))
  ELSE IF env.loaded THEN Return(Obj("{success:true}"), TabsQuery(env))
  ELSE Return(Obj("{success:true,timedOut:true}"), TabsQuery(env))

\* The cases of the switch in executeCommand.
Handled ==
  {"goto", "reload", "back", "forward", "click", "type", "select", "hover",
   "focus", "getText", "getHtml", "getAttribute", "evaluate",
   "waitForSelector", "waitForNavigation", "waitForTimeout", "exit"}

UnknownCommand_Silent(command) == Return(Undefined, <<>>)

\* default: throw new Error(`Unknown command: ${command}`)
UnknownCommand(command) == Throw("Unknown command: " \o command, <<>>)

\* executeCommand (commandHandler.ts:71-120).
ExecuteCommand(command, env) ==
  CASE command = "goto" -> NavigateToUrl(env)
    [] command = "reload" -> ReloadPage(env)
    [] command \in {"back", "forward", "click", "type", "select", "hover",
                    "focus", "getText", "getHtml", "getAttribute",
                    "waitForSelector"} -> ExecuteScriptInActiveTab(command, env)
    [] command = "evaluate" -> EvaluateFunction(env)
    [] command = "waitForNavigation" -> WaitForNavigation(env)
    [] command = "waitForTimeout" -> Return(Obj("{success:true,waited}"), <<>>)
    [] command = "exit" -> Return(Obj("{exited:true}"), <<>>)
    [] OTHER -> UnknownCommand(command)

\* The executions that end without waiting for a callback or a timer: they
\* settle in the task that delivered the COMMAND.
Synchronous(command) == command = "exit" \/ command \notin Handled

\* ------------------------------------------------------------ the codec
\* Packets are written with JSON.stringify (ws.ts:32, 43) and read with
\* JSON.parse (ws.ts:134).  An object is the sequence of its members in
\* insertion order.
Num(n) == [t |-> "number", v |-> n]
Bool(b) == [t |-> "boolean", v |-> b]
JsDate(ms) == [t |-> "date", v |-> ms]
JsObject(members) == [t |-> "map", v |-> members]
Member(k, v) == [k |-> k, v |-> v]

\* Date.prototype.toJSON: the ISO string of the instant (ms in 0..9 here).
ToISOString(ms) == "1970-01-01T00:00:00.00" \o ToString(ms) \o "Z"

\* What JSON.stringify writes for a value: a Date becomes its ISO string, a
\* member whose value is undefined is left out.
RECURSIVE ToJSON(_), ToJSONMembers(_)
ToJSON(v) ==
  CASE v.t = "date" -> Str(ToISOString(v.v))
    [] v.t = "map" -> JsObject(ToJSONMembers(v.v))
    [] OTHER -> v

ToJSONMembers(ms) ==
  IF ms = <<>> THEN <<>>
  ELSE IF Head(ms).v = Undefined THEN ToJSONMembers(Tail(ms))
  ELSE <<Member(Head(ms).k, ToJSON(Head(ms).v))>> \o ToJSONMembers(Tail(ms))

\* The JSON text of a value JSON can carry.
RECURSIVE JsonText(_), JsonTextMembers(_)
JsonText(v) ==
  CASE v.t = "string" -> "\"" \o v.v \o "\""
    [] v.t = "number" -> ToString(v.v)
    [] v.t = "boolean" -> IF v.v THEN "true" ELSE "false"
    [] v.t = "null" -> "null"
    [] v.t = "map" -> "{" \o JsonTextMembers(v.v) \o "}"

JsonTextMembers(ms) ==
  IF ms = <<>> THEN ""
  ELSE "\"" \o Head(ms).k \o "\":" \o JsonText(Head(ms).v)
       \o (IF Tail(ms) = <<>> THEN "" ELSE "," \o JsonTextMembers(Tail(ms)))

\* JSON.stringify(data)
Stringify(v) == JsonText(ToJSON(v))

\* The packets of types.ts, structurally valid, over small member values.
PacketOf(type, data) == JsObject(<<Member("type", Str(type)), Member("data", data)>>)

InitPackets ==
  {PacketOf(PacketType.INIT,
            JsObject(<<Member("accessCode", Str(a)), Member("userAgent", Str("UA")),
                       Member("isOnline", Bool(o)), Member("lastOnline", JsDate(d))>>)) :
     a \in AccessCodes, o \in BOOLEAN, d \in {0, 1}}

CommandResultPackets ==
  {PacketOf(PacketType.COMMAND_RESULT,
            JsObject(<<Member("commandId", Str("c1")), Member("accessCode", Str(a)),
                       Member("success", Bool(x[1])), Member("result", x[2]),
                       Member("error", x[3]), Member("timestamp", Num(x[4]))>>)) :
     a \in AccessCodes,
     x \in BOOLEAN \X {Undefined, Null, Str("text"), Num(1)}
             \X {Undefined, Str("Element not found: h1")} \X {0, 1}}

CommandPackets ==
  {PacketOf(PacketType.COMMAND,
            JsObject(<<Member("accessCode", Str(a)), Member("commandId", Str("c1")),
                       Member("command", Str(n)),
                       Member("params", JsObject(<<Member("selector", Str("h1"))>>)),
                       Member("timestamp", Num(0))>>)) :
     a \in AccessCodes, n \in {"click", "exit"}}

OtherPackets ==
  {PacketOf(k, d) :
     k \in {PacketType.EXIT, PacketType.PING, PacketType.PONG, PacketType.ERROR},
     d \in {Null, Str("text"), JsObject(<<>>)}}

Packets == InitPackets \cup CommandResultPackets \cup CommandPackets \cup OtherPackets

\* JSON.parse of a text that JSON.stringify wrote: the JSON value with that
\* text.  (Strings stay strings: nothing revives a Date.)
ParseWire(text) ==
  CHOOSE j \in {ToJSON(p) : p \in Packets} : JsonText(j) = text

NoWire == [stage |-> "idle", p |-> Null, text |-> "", q |-> Null]

CodecStep(op) ==
  /\ ev' = Ev(op)
  /\ out' = <<>>
  /\ UNCHANGED <<transport, identity, commands, temps, timing>>

\* A packet is written for the wire.
StringifyPacket(p) ==
  /\ wire.stage \in {"idle", "decoded"}
  /\ wire' = [stage |-> "encoded", p |-> p, text |-> Stringify(p), q |-> Null]
  /\ CodecStep("JSON.stringify")

\* The receiver reads it.
ParsePacket ==
  /\ wire.stage = "encoded"
  /\ wire' = [wire EXCEPT !.stage = "decoded", !.q = ParseWire(wire.text)]
  /\ CodecStep("JSON.parse")

\* ------------------------------------------------------- timed waits
\* The waits of the executor with the clock made explicit.  A timer set for
\* a delay fires when the delay has passed or a little later; the events of
\* the browser arrive after a while.
Lateness == {0, 10}
MaxLate == CHOOSE l \in Lateness : \A m \in Lateness : m <= l

\* The timeouts a COMMAND gives: short ones, one between two polls, the
\* default of waitForNavigation and a longer one.
SelectorTimeouts == {200, 210, 1000}
NavigationTimeouts == {100, 30000}

\* How long after the last step the tab reports status 'complete', and how
\* long chrome.tabs.executeScript takes to call back.
TabDelays == {50, 150}
ScriptDelays == {20}

NavigationCommands == {"goto", "reload", "back", "forward"}

Idle ==
  [command |-> "", start |-> 0, timeout |-> 0, timer |-> FALSE, due |-> 0,
   listener |-> FALSE, loaded |-> FALSE, promise |-> "pending", value |-> "",
   at |-> 0, calls |-> 0]

\* resolve(v) / reject(v) at time t on the promise of wait w.
SettleWait(w, to, v, t) ==
  IF w.promise = "pending"
  THEN [w EXCEPT !.promise = to, !.value = v, !.at = t, !.calls = @ + 1]
  ELSE [w EXCEPT !.calls = @ + 1]

\* setTimeout(f, delay) at time t.
SetTimer(w, t, delay) == [w EXCEPT !.timer = TRUE, !.due = t + delay]

\* When a due timer runs: not before it is due, not before now.
FireTime(w, late) == IF now > w.due + late THEN now ELSE w.due + late

WaitStep(op) ==
  /\ ev' = Ev(op)
  /\ out' = <<>>
  /\ UNCHANGED <<transport, identity, commands, temps, wire>>

\* waitForNavigation(timeout), the tabs.query callback with an active tab
\* (commandHandler.ts:413-430): listener and timer.
WaitForNavigationStarts(timeout) ==
  /\ wait = Idle
  /\ now' = 0
  /\ wait' = SetTimer([Idle EXCEPT !.command = "waitForNavigation",
                                   !.timeout = timeout, !.listener = TRUE],
                      0, timeout)
  /\ WaitStep("waitForNavigation")

\* goto / reload: the callback of tabs.update, tabs.create or tabs.reload
\* calls waitForTabLoad (commandHandler.ts:193-210): listener and timer.
WaitForTabLoadStarts(command) ==
  /\ wait = Idle
  /\ command \in {"goto", "reload"}
  /\ now' = 0
  /\ wait' = SetTimer([Idle EXCEPT !.command = command,
                                   !.timeout = TAB_LOAD_TIMEOUT_MS,
                                   !.listener = TRUE],
                      0, TAB_LOAD_TIMEOUT_MS)
  /\ WaitStep("waitForTabLoad")

\* back / forward: the injected code calls window.history.back() or forward()
\* and returns { success: true } (commandHandler.ts:172-187); nothing waits.
HistoryScriptStarts(command) ==
  /\ wait = Idle
  /\ command \in {"back", "forward"}
  /\ now' = 0
  /\ wait' = [Idle EXCEPT !.command = command]
  /\ WaitStep("historyScript")

\* chrome.tabs.executeScript calls back with the value of the injected code.
HistoryScriptReturns(d) ==
  /\ wait.command \in {"back", "forward"}
  /\ wait.promise = "pending"
  /\ now' = now + d
  /\ wait' = SettleWait(wait, "resolved", "{success:true}", now + d)
  /\ WaitStep("executeScript.callback")

\* The injected code of waitForSelector (commandHandler.ts:378-397) begins:
\* the first checkElement runs at once, finds nothing, and sets the timer.
WaitForSelectorStarts(timeout) ==
  /\ wait = Idle
  /\ now' = 0
  /\ wait' = SetTimer([Idle EXCEPT !.command = "waitForSelector",
                                   !.timeout = timeout],
                      0, POLL_INTERVAL_MS)
  /\ WaitStep("checkElement")

\* checkElement at time t (commandHandler.ts:381-394).
CheckElement(w, t, found) ==
  IF found
  THEN SettleWait([w EXCEPT !.timer = FALSE], "resolved", "{found:true,selector}", t)
  ELSE IF t - w.start > w.timeout
  THEN SettleWait([w EXCEPT !.timer = FALSE], "rejected",
                  "Timeout waiting for element: h1", t)
  ELSE SetTimer(w, t, POLL_INTERVAL_MS)

\* The poll timer fires.
SelectorPoll(late, found) ==
  /\ wait.command = "waitForSelector"
  /\ wait.timer
  /\ now' = FireTime(wait, late)
  /\ wait' = CheckElement(wait, FireTime(wait, late), found)
  /\ WaitStep("checkElement")

\* The listener of waitForNavigation / waitForTabLoad sees status
\* 'complete' of its tab at time t.
OnUpdatedComplete(w, t) ==
  IF ~w.listener THEN [w EXCEPT !.loaded = TRUE]
  ELSE SettleWait([w EXCEPT !.loaded = TRUE, !.listener = FALSE,
                            !.timer = IF w.command = "waitForNavigation"
                                      THEN FALSE ELSE @],
                  "resolved",
                  IF w.command = "goto" THEN "{success:true,url}" ELSE "{success:true}",
                  t)

\* The tab finishes loading d ms after the last step; a timer that was due
\* before that moment has run before.
TabComplete(d) ==
  /\ wait.command \in NavigationCommands \cup {"waitForNavigation"}
  /\ ~wait.loaded
  /\ wait.timer => now + d <= wait.due + MaxLate
  /\ now' = now + d
  /\ wait' = OnUpdatedComplete(wait, now + d)
  /\ WaitStep("onUpdated")

TimedOut_Rejects(w, t) ==
  SettleWait([w EXCEPT !.timer = FALSE, !.listener = FALSE], "rejected",
             "Navigation timeout", t)

\* The timeout callback of waitForNavigation (commandHandler.ts:427-430) or
\* of waitForTabLoad (205-208) at time t.
TimedOut(w, t) ==
  SettleWait([w EXCEPT !.timer = FALSE, !.listener = FALSE], "resolved",
             CASE w.command = "waitForNavigation" -> "{success:true,timedOut:true}"
               [] w.command = "goto" -> "{success:true,url}"
               [] OTHER -> "{success:true}",
             t)

WaitTimerFires(late) ==
  /\ wait.command \in {"goto", "reload", "waitForNavigation"}
  /\ wait.timer
  /\ now' = FireTime(wait, late)
  /\ wait' = TimedOut(wait, FireTime(wait, late))
  /\ WaitStep("wait.timeout")

\* ----------------------------------------------------- sendWebSocketMessage
\* A promise settles once: resolve and reject on a settled promise do nothing.
Settle(promise, to) == IF promise = "pending" THEN to ELSE promise

\* ws.ts:30  socket && socket.readyState === WebSocket.OPEN
CanSendNow == socket # NULL /\ sockets[socket].readyState = "OPEN"

\* ws.ts:39-63  new WebSocket(WS_URL), its handlers and the 5000 ms timer.
NewTempSocket(data, awaiter) ==
  [readyState |-> "CONNECTING", promise |-> "pending", timer |-> TRUE,
   delay |-> SEND_TIMEOUT_MS, data |-> data, sent |-> 0, awaiter |-> awaiter]

FreshTemp ==
  Min({i \in 1..(Cardinality(DOMAIN temps) + 1) : i \notin DOMAIN temps})

\* A temporary socket that is CLOSED and whose timer has fired is unreachable.
Reap(tmps) ==
  [i \in {j \in DOMAIN tmps : tmps[j].readyState # "CLOSED" \/ tmps[j].timer}
     |-> tmps[i]]

\* A COMMAND_RESULT handed to WebSocket.send counts for its commandId.
Emitted(cmds, data) ==
  IF data.type = "COMMAND_RESULT" /\ data.commandId \in DOMAIN cmds
  THEN [cmds EXCEPT ![data.commandId].results = @ + 1]
  ELSE cmds

\* The caller awaiting the promise of a temporary socket resumes when it
\* settles: processCommand returns, or its rejection reaches the catch of
\* onmessage.
Resume(cmds, awaiter, before, after) ==
  IF before = "pending" /\ after # "pending" /\ awaiter \in DOMAIN cmds
  THEN [cmds EXCEPT ![awaiter].phase =
          IF after = "resolved" THEN "done" ELSE "sendFailed"]
  ELSE cmds

\* sendWebSocketMessage(data) up to its return (ws.ts:27-70): the message
\* goes out on the open persistent socket, or a temporary socket is created.
SendWebSocketMessage(data, awaiter) ==
  IF CanSendNow
  THEN /\ out' = <<[via |-> "socket", on |-> socket, msg |-> data]>>
       /\ temps' = temps
  ELSE /\ out' = <<>>
       /\ temps' = (FreshTemp :> NewTempSocket(data, awaiter)) @@ temps

TempOnOpen_KeepOpen(a) ==
  LET t == temps[a] IN
  /\ out' = <<[via |-> "temp", on |-> a, msg |-> t.data]>>
  /\ temps' = [temps EXCEPT ![a].readyState = "OPEN",
                            ![a].sent = @ + 1,
                            ![a].promise = Settle(@, "resolved")]
  /\ commands' = Resume(Emitted(commands, t.data), t.awaiter, t.promise,
                        Settle(t.promise, "resolved"))

\* tempSocket.onopen (ws.ts:41-50): send, close, resolve.
TempOnOpen(a) ==
  LET t == temps[a] IN
  /\ out' = <<[via |-> "temp", on |-> a, msg |-> t.data]>>
  /\ temps' = [temps EXCEPT ![a].readyState = "CLOSING",
                            ![a].sent = @ + 1,
                            ![a].promise = Settle(@, "resolved")]
  /\ commands' = Resume(Emitted(commands, t.data), t.awaiter, t.promise,
                        Settle(t.promise, "resolved"))

TempOpens(a) ==
  /\ a \in DOMAIN temps
  /\ temps[a].readyState = "CONNECTING"
  /\ TempOnOpen(a)
  /\ ev' = Ev("temp.onopen")
  /\ UNCHANGED <<transport, identity, timing, wire>>

TempOnError_Silent(a) ==
  LET t == temps[a] IN
  /\ out' = <<>>
  /\ temps' = Reap([temps EXCEPT ![a].readyState = "CLOSED"])
  /\ commands' = commands

\* tempSocket.onerror (ws.ts:52-55): reject.  The socket is CLOSED by then.
TempOnError(a) ==
  LET t == temps[a] IN
  /\ out' = <<>>
  /\ temps' = Reap([temps EXCEPT ![a].readyState = "CLOSED",
                                 ![a].promise = Settle(@, "rejected")])
  /\ commands' = Resume(commands, t.awaiter, t.promise,
                        Settle(t.promise, "rejected"))

\* The temporary connection cannot be established: error, then close.
TempFails(a) ==
  /\ a \in DOMAIN temps
  /\ temps[a].readyState = "CONNECTING"
  /\ TempOnError(a)
  /\ ev' = Ev("temp.onerror")
  /\ UNCHANGED <<transport, identity, timing, wire>>

\* The 5000 ms timer of sendWebSocketMessage (ws.ts:58-63).
TempTimeout(a) ==
  /\ a \in DOMAIN temps
  /\ temps[a].timer
  /\ out' = <<>>
  /\ IF temps[a].readyState # "CLOSED"
     THEN /\ temps' = [temps EXCEPT
                         ![a].timer = FALSE,
                         ![a].readyState =
                            IF @ \in {"CONNECTING", "OPEN"} THEN "CLOSING" ELSE @,
                         ![a].promise = Settle(@, "rejected")]
          /\ commands' = Resume(commands, temps[a].awaiter, temps[a].promise,
                                Settle(temps[a].promise, "rejected"))
     ELSE /\ temps' = Reap([temps EXCEPT ![a].timer = FALSE])
          /\ commands' = commands
  /\ ev' = Ev("temp.timeout")
  /\ UNCHANGED <<transport, identity, timing, wire>>

\* The close() of a temporary socket completes.  One closed before it had
\* opened fires its error event first; nothing listens to its close event.
TempCloseCompletes(a) ==
  /\ a \in DOMAIN temps
  /\ temps[a].readyState = "CLOSING"
  /\ IF temps[a].sent = 0
     THEN TempOnError(a)
     ELSE /\ temps' = Reap([temps EXCEPT ![a].readyState = "CLOSED"])
          /\ commands' = commands
          /\ out' = <<>>
  /\ ev' = Ev("temp.onclose")
  /\ UNCHANGED <<transport, identity, timing, wire>>

\* ----------------------------------------------------------------- keepAlive
AccessCodeOf_AlwaysGenerate(stored, generated) == generated

\* background.ts:11  storage.accessCode || generateAccessCode()
AccessCodeOf(stored, generated) == IF stored # Absent THEN stored ELSE generated

\* background.ts:22-30  the INIT packet (userAgent, isOnline, lastOnline left out)
InitMessage(accessCode) == [type |-> PacketType.INIT, accessCode |-> accessCode]

FreshRun == Min((1..MaxRuns) \ DOMAIN runs)

EndRun(k) == [i \in DOMAIN runs \ {k} |-> runs[i]]

\* keepAlive is called (startup, onInstalled or the alarm) and awaits
\* chrome.storage.local.get.  The storage area serves its requests in the
\* order they are issued, so what this get yields is the store as it is now.
KeepAliveStart(k) ==
  /\ Cardinality(DOMAIN runs) < MaxRuns
  /\ k = FreshRun
  /\ Tokens + Cardinality(DOMAIN runs) < MaxSockets
  /\ Cardinality(DOMAIN temps) + Cardinality(DOMAIN runs) < MaxRuns
  /\ runs' = (k :> [pc |-> "get", read |-> store, accessCode |-> Absent,
                     alone |-> runs = <<>>]) @@ runs
  /\ ev' = EvRun("keepAlive", k, "", NoOutcome)
  /\ out' = <<>>
  /\ UNCHANGED <<transport, commands, temps, store, generations, timing, wire>>

\* background.ts:19-30  initializeWebSocket(accessCode), then the INIT packet
\* through sendWebSocketMessage, whose promise keepAlive awaits last.  The
\* socket is OPEN after initializeWebSocket exactly if it was OPEN before.
KeepAliveConnect(k, accessCode) ==
  /\ InitializeWebSocket(accessCode, timeouts)
  /\ SendWebSocketMessage(InitMessage(accessCode), NULL)
  /\ closeCalled' = FALSE
  /\ runs' = EndRun(k)
  /\ commands' = commands

\* storage.get has answered (background.ts:11-19): without a stored code one
\* is generated and keepAlive awaits storage.set; with one it goes on.
KeepAliveGot(k, generated) ==
  LET stored == runs[k].read
      accessCode == AccessCodeOf(stored, generated)
  IN
  /\ k \in DOMAIN runs
  /\ runs[k].pc = "get"
  /\ ev' = EvRun("keepAlive.got", k, accessCode, NoOutcome)
  /\ UNCHANGED <<timing, wire>>
  /\ IF stored = Absent
     THEN /\ generations' = generations + 1
          /\ store' = accessCode
          /\ runs' = [runs EXCEPT ![k].pc = "set", ![k].accessCode = accessCode]
          /\ out' = <<>>
          /\ UNCHANGED <<transport, commands, temps>>
     ELSE /\ UNCHANGED <<store, generations>>
          /\ KeepAliveConnect(k, accessCode)

\* storage.set has answered (background.ts:15-19).
KeepAliveSet(k) ==
  /\ k \in DOMAIN runs
  /\ runs[k].pc = "set"
  /\ ev' = EvRun("keepAlive.set", k, runs[k].accessCode, NoOutcome)
  /\ KeepAliveConnect(k, runs[k].accessCode)
  /\ UNCHANGED <<store, generations, timing, wire>>

KeepAliveGetFails_Swallowed(k) ==
  /\ k \in DOMAIN runs
  /\ runs[k].pc = "get"
  /\ ev' = EvRun("keepAlive.getFails", k, "", NoOutcome)
  /\ KeepAliveConnect(k, "111111")
  /\ UNCHANGED <<store, generations, timing, wire>>

\* chrome.storage.local.get rejects (the storage area cannot be read): the
\* await of background.ts:10 throws, keepAlive has no try around it, so its
\* promise rejects with that error and lines 11-30 are not run.  The callers
\* receive the rejection (background.ts:36, 59 await it, 64 catches it).
KeepAliveGetFails(k) ==
  /\ k \in DOMAIN runs
  /\ runs[k].pc = "get"
  /\ runs' = EndRun(k)
  /\ ev' = EvRun("keepAlive.getFails", k, "", Throw("StorageError", <<>>))
  /\ out' = <<>>
  /\ UNCHANGED <<transport, commands, temps, store, generations, timing, wire>>

\* The browser restarts the background script: everything but the storage
\* area is gone, and the script calls keepAlive as it loads (background.ts:64).
Restart ==
  /\ sockets' = <<>>
  /\ socket' = NULL
  /\ reconnectTimeout' = NULL
  /\ pingInterval' = NULL
  /\ timeouts' = <<>>
  /\ intervals' = 0
  /\ commands' = <<>>
  /\ temps' = <<>>
  /\ closeCalled' = FALSE
  /\ runs' = (1 :> [pc |-> "get", read |-> store, accessCode |-> Absent,
                     alone |-> TRUE])
  /\ ev' = EvRun("restart", 1, "", NoOutcome)
  /\ out' = <<>>
  /\ UNCHANGED <<store, generations, timing, wire>>

\* ------------------------------------------------------------ processCommand
ResultPacket_AlwaysSuccess(commandId, accessCode, outcome) ==
  [type |-> PacketType.COMMAND_RESULT, commandId |-> commandId,
   accessCode |-> accessCode,
   success |-> TRUE, result |-> outcome.value, error |-> Undefined]

\* The COMMAND_RESULT packet of sendCommandResult (commandHandler.ts:50-60);
\* success, result and error as the try/catch of processCommand leaves them
\* (every value the executor throws is an Error).
ResultPacket(commandId, accessCode, outcome) ==
  LET success == outcome.kind = "return"
      result == IF success THEN outcome.value ELSE Null
      error == IF success THEN Null ELSE Str(outcome.message)
  IN [type |-> PacketType.COMMAND_RESULT, commandId |-> commandId,
      accessCode |-> accessCode,
      success |-> success, result |-> result, error |-> OrUndefined(error)]

\* processCommand from the end of executeCommand on: build the result and
\* await sendWebSocketMessage.
SendCommandResult(cmds, c, outcome) ==
  LET data == ResultPacket(c, cmds[c].accessCode, outcome)
      ran == [cmds EXCEPT ![c].command = ""]
  IN /\ SendWebSocketMessage(data, c)
     /\ commands' = IF CanSendNow
                    THEN [Emitted(ran, data) EXCEPT ![c].phase = "done"]
                    ELSE [ran EXCEPT ![c].phase = "sending"]

\* A processCommand invocation: the command it executes (while it does) and the
\* accessCode of its packet (locals of commandHandler.ts:16), where it stands,
\* and how many COMMAND_RESULT packets went out for its commandId.
NewCommand(command, accessCode, phase) ==
  [command |-> command, accessCode |-> accessCode, phase |-> phase,
   results |-> 0]

FreshCommand == Cardinality(DOMAIN commands) + 1

\* ------------------------------------------------------- socket.onmessage
\* JSON.stringify of a packet of the given kind, as the server sends it (the
\* other members of a packet are parameters of the actions).
Encode(type) == "{\"type\":\"" \o type \o "\"}"

\* The kinds of packet a server may send: enum PacketType and strangers.
PacketKinds == {PacketType[k] : k \in DOMAIN PacketType} \cup {"REGISTER", "HELLO"}

\* The texts that arrive on the persistent socket: the liveness reply, the
\* packets, JSON that is no packet, and text that is no JSON.
InboundTexts ==
  {"pong", "ping", "\"pong\"", "null"} \cup {Encode(k) : k \in PacketKinds}

\* JSON.parse: the value, or a SyntaxError.
JsonParse(text) ==
  IF \E k \in PacketKinds : text = Encode(k)
  THEN [ok |-> TRUE,
        v |-> [t |-> "packet",
               type |-> CHOOSE k \in PacketKinds : text = Encode(k)]]
  ELSE IF text = "null" THEN [ok |-> TRUE, v |-> Null]
  ELSE IF Len(text) >= 2 /\ SubSeq(text, 1, 1) = "\"" /\ SubSeq(text, Len(text), Len(text)) = "\""
  THEN [ok |-> TRUE, v |-> Str(SubSeq(text, 2, Len(text) - 1))]
  ELSE [ok |-> FALSE, v |-> Undefined]

Classify_ExitIsCommand(text) ==
  IF text = "pong" THEN "pong"
  ELSE LET p == JsonParse(text) IN
       IF ~p.ok \/ p.v = Null THEN "error"
       ELSE IF p.v.t = "packet" /\ p.v.type \in {PacketType.COMMAND, PacketType.EXIT}
       THEN "command"
       ELSE "other"

Classify_ErrorIsCommand(text) ==
  IF text = "pong" THEN "pong"
  ELSE LET p == JsonParse(text) IN
       IF ~p.ok \/ p.v = Null THEN "command"
       ELSE IF p.v.t = "packet" /\ p.v.type = PacketType.COMMAND THEN "command"
       ELSE "other"

\* What onmessage does with a text (ws.ts:126-145): 'pong' returns before
\* any decoding; a SyntaxError of JSON.parse and the TypeError of reading
\* `type` of null end in the catch; a packet whose type is COMMAND goes to
\* processCommand; everything else is logged.
Classify(text) ==
  IF text = "pong" THEN "pong"
  ELSE LET p == JsonParse(text) IN
       IF ~p.ok \/ p.v = Null THEN "error"
       ELSE IF p.v.t = "packet" /\ p.v.type = PacketType.COMMAND THEN "command"
       ELSE "other"

\* socket.onmessage of socket s receives a COMMAND packet (ws.ts:137-139) and
\* awaits processCommand.  Without a data payload the destructuring in
\* processCommand throws before its try block; onmessage logs the error.
OnMessageCommand(s, text, command, accessCode, hasData) ==
  LET c == FreshCommand
      env == CHOOSE e \in Envs : TRUE  \* a synchronous execution asks no browser
  IN
  /\ IF ~hasData
     THEN /\ commands' = (c :> NewCommand("", "", "rejected")) @@ commands
          /\ out' = <<>>
          /\ temps' = temps
          /\ ev' = EvMessage("onmessage", 0, "", NoOutcome, text)
     ELSE IF Synchronous(command)
     THEN /\ SendCommandResult((c :> NewCommand(command, accessCode, "executing")) @@ commands,
                               c, ExecuteCommand(command, env))
          /\ ev' = EvMessage("onmessage", c, command,
                             ExecuteCommand(command, env), text)
     ELSE /\ commands' = (c :> NewCommand(command, accessCode, "executing")) @@ commands
          /\ out' = <<>>
          /\ temps' = temps
          /\ ev' = EvMessage("onmessage", 0, "", NoOutcome, text)

\* socket.onmessage of socket s (ws.ts:124-146) receives a text; command,
\* accessCode and hasData are the rest of the packet when it is a COMMAND.
OnMessage(s, text, command, accessCode, hasData) ==
  /\ s \in DOMAIN sockets
  /\ sockets[s].readyState = "OPEN"
  /\ IF Classify(text) = "command"
     THEN OnMessageCommand(s, text, command, accessCode, hasData)
     ELSE /\ ev' = EvMessage("onmessage." \o Classify(text), 0, "", NoOutcome, text)
          /\ out' = <<>>
          /\ UNCHANGED <<commands, temps>>
  /\ UNCHANGED <<transport, identity, timing, wire>>

\* The browser call the executor awaits completes and processCommand resumes.
ExecutorSettles(c, env) ==
  /\ c \in DOMAIN commands
  /\ commands[c].phase = "executing"
  /\ SendCommandResult(commands, c, ExecuteCommand(commands[c].command, env))
  /\ ev' = EvRun("executor", c, commands[c].command,
                 ExecuteCommand(commands[c].command, env))
  /\ UNCHANGED <<transport, identity, timing, wire>>

\* The execution settles with the persistent socket OPEN and JSON.stringify
\* or socket.send throws (ws.ts:32-34; the packets built here give them no
\* cause to): the catch of sendWebSocketMessage rejects its promise
\* (ws.ts:65-68), nothing has been sent, and the rejection leaves
\* processCommand for the catch of onmessage.
SendThrows(c, env) ==
  /\ c \in DOMAIN commands
  /\ commands[c].phase = "executing"
  /\ CanSendNow
  /\ out' = <<>>
  /\ temps' = temps
  /\ commands' = [commands EXCEPT ![c].command = "", ![c].phase = "sendFailed"]
  /\ ev' = EvRun("send.throws", c, commands[c].command, Throw("send", <<>>))
  /\ UNCHANGED <<transport, identity, timing, wire>>

\* --------------------------------------------------------------- the system
Init ==
  /\ sockets = <<>>
  /\ socket = NULL
  /\ reconnectTimeout = NULL
  /\ pingInterval = NULL
  /\ timeouts = <<>>
  /\ intervals = 0
  /\ commands = <<>>
  /\ temps = <<>>
  /\ closeCalled = FALSE
  /\ store = Absent
  /\ runs = <<>>
  /\ generations = 0
  /\ now = 0
  /\ wait = Idle
  /\ wire = NoWire
  /\ ev = Ev("start")
  /\ out = <<>>

\* The transport alone: connect, reconnect, keepalive and close.
NextTransport ==
  \/ \E c \in AccessCodes : Tokens < MaxSockets /\ KeepAliveInit(c)
  \/ \E s \in SocketIds : SocketOpens(s)
  \/ \E s \in SocketIds : ConnectFails(s)
  \/ \E s \in SocketIds : ConnectionDrops(s)
  \/ \E s \in SocketIds : CloseCompletes(s)
  \/ \E t \in TimerIds : ReconnectTimerFires(t)
  \/ PingTick
  \/ CloseWebSocket

SpecTransport == Init /\ [][NextTransport]_vars

\* Commands arriving over the persistent connection of one keepAlive caller.
Next ==
  \/ Tokens = 0 /\ KeepAliveInit("111111")
  \/ \E s \in SocketIds : SocketOpens(s)
  \/ \E s \in SocketIds : ConnectFails(s)
  \/ \E s \in SocketIds : ConnectionDrops(s)
  \/ \E t \in TimerIds : ReconnectTimerFires(t)
  \/ \E s \in DOMAIN sockets, n \in CommandNames, d \in BOOLEAN :
        /\ FreshCommand <= MaxCommands
        /\ OnMessage(s, Encode(PacketType.COMMAND), n, "111111", d)
  \/ \E c \in 1..MaxCommands, e \in AskedEnvs : ExecutorSettles(c, e)
  \/ \E a \in 1..MaxCommands : TempOpens(a)
  \/ \E a \in 1..MaxCommands : TempFails(a)
  \/ \E a \in 1..MaxCommands : TempTimeout(a)
  \/ \E a \in 1..MaxCommands : TempCloseCompletes(a)

Spec == Init /\ [][Next]_vars

\* The same with four commands standing for the others: one that asks the
\* page of the active tab, one that asks the browser only, and two without a
\* case in executeCommand, one of them a member of the enumeration.
ResultCommands == {"click", "reload", "screenshot", "unknownThing"}

NextResult ==
  \/ Tokens = 0 /\ KeepAliveInit("111111")
  \/ \E s \in SocketIds : SocketOpens(s)
  \/ \E s \in SocketIds : ConnectFails(s)
  \/ \E s \in SocketIds : ConnectionDrops(s)
  \/ \E t \in TimerIds : ReconnectTimerFires(t)
  \/ \E s \in DOMAIN sockets, n \in ResultCommands, d \in BOOLEAN :
        /\ FreshCommand <= MaxCommands
        /\ OnMessage(s, Encode(PacketType.COMMAND), n, "111111", d)
  \/ \E c \in 1..MaxCommands, e \in AskedEnvs : ExecutorSettles(c, e)
  \/ \E a \in 1..MaxCommands : TempOpens(a)
  \/ \E a \in 1..MaxCommands : TempFails(a)
  \/ \E a \in 1..MaxCommands : TempTimeout(a)
  \/ \E a \in 1..MaxCommands : TempCloseCompletes(a)

SpecResult == Init /\ [][NextResult]_vars

\* The transport with closeWebSocket never called.  The event loop runs every
\* due timer; a connection attempt ends (it opens or it fails); and the
\* server eventually accepts an attempt of the current socket.
NextReconnect ==
  \/ \E c \in AccessCodes : Tokens < MaxSockets /\ KeepAliveInit(c)
  \/ \E s \in SocketIds : SocketOpens(s)
  \/ \E s \in SocketIds : ConnectFails(s)
  \/ \E s \in SocketIds : ConnectionDrops(s)
  \/ \E t \in TimerIds : ReconnectTimerFires(t)
  \/ PingTick

SpecReconnect ==
  /\ Init /\ [][NextReconnect]_vars
  /\ \A t \in TimerIds : WF_vars(ReconnectTimerFires(t))
  /\ \A s \in SocketIds : WF_vars(SocketOpens(s) \/ ConnectFails(s))
  /\ SF_vars(\E s \in SocketIds : s = socket /\ SocketOpens(s))

\* keepAlive and its callers over the storage area; connections open, and
\* the browser may restart the script at any moment.
NextIdentity ==
  \/ \E k \in 1..MaxRuns : KeepAliveStart(k)
  \/ \E k \in 1..MaxRuns, g \in AccessCodes : KeepAliveGot(k, g)
  \/ \E k \in 1..MaxRuns : KeepAliveSet(k)
  \/ \E k \in 1..MaxRuns : KeepAliveGetFails(k)
  \/ Restart
  \/ \E s \in SocketIds : SocketOpens(s)
  \/ \E a \in 1..MaxRuns : TempOpens(a)
  \/ \E a \in 1..MaxRuns : TempFails(a)
  \/ \E a \in 1..MaxRuns : TempTimeout(a)
  \/ \E a \in 1..MaxRuns : TempCloseCompletes(a)

SpecIdentity == Init /\ [][NextIdentity]_vars

\* The timed waits of the executor, one at a time.
NextWait ==
  \/ \E t \in NavigationTimeouts : WaitForNavigationStarts(t)
  \/ \E n \in NavigationCommands : WaitForTabLoadStarts(n)
  \/ \E n \in NavigationCommands : HistoryScriptStarts(n)
  \/ \E d \in ScriptDelays : HistoryScriptReturns(d)
  \/ \E t \in SelectorTimeouts : WaitForSelectorStarts(t)
  \/ \E l \in Lateness, f \in BOOLEAN : SelectorPoll(l, f)
  \/ \E d \in TabDelays : TabComplete(d)
  \/ \E l \in Lateness : WaitTimerFires(l)

SpecWait == Init /\ [][NextWait]_vars

\* Everything a server may send on the persistent connection of one
\* keepAlive caller, while that connection comes and goes.
NextInbound ==
  \/ Tokens = 0 /\ KeepAliveInit("111111")
  \/ \E s \in SocketIds : SocketOpens(s)
  \/ \E s \in SocketIds : ConnectionDrops(s)
  \/ \E t \in TimerIds : ReconnectTimerFires(t)
  \/ PingTick
  \/ \E s \in DOMAIN sockets, x \in InboundTexts, n \in {"click", "exit"},
        d \in BOOLEAN :
        /\ Classify(x) = "command" => FreshCommand <= MaxCommands
        /\ OnMessage(s, x, n, "111111", d)
  \/ \E c \in 1..MaxCommands, e \in Envs : ExecutorSettles(c, e)

SpecInbound == Init /\ [][NextInbound]_vars

\* Commands that overlap while the persistent connection is lost or closed:
\* the server sends them with the identifier of its choice (the identifiers
\* are interchangeable, so the first command carries the first), the pages
\* answer in any order, closeWebSocket may be called at any moment, and an
\* auxiliary connection opens or fails before its 5000 ms timer is due.
OverlapCommands == {"click"}

OverlapEnvs ==
  {e \in Envs : /\ e.injected /\ e.reported /\ e.loaded /\ e.awaited
                /\ e.found /\ ~e.fnThrows}

NextOverlap ==
  \/ Tokens = 0 /\ KeepAliveInit("111111")
  \/ \E s \in SocketIds : SocketOpens(s)
  \/ \E s \in SocketIds : ConnectionDrops(s)
  \/ \E s \in SocketIds : CloseCompletes(s)
  \/ CloseWebSocket
  \/ \E s \in DOMAIN sockets, n \in OverlapCommands, a \in AccessCodes :
        /\ FreshCommand <= MaxOverlap
        /\ FreshCommand = 1 => a = "111111"
        /\ OnMessage(s, Encode(PacketType.COMMAND), n, a, TRUE)
  \/ \E c \in 1..MaxOverlap, e \in OverlapEnvs : ExecutorSettles(c, e)
  \/ \E a \in 1..MaxOverlap : TempOpens(a)
  \/ \E a \in 1..MaxOverlap : TempFails(a)
  \/ \E a \in 1..MaxOverlap : TempCloseCompletes(a)

SpecOverlap == Init /\ [][NextOverlap]_vars

\* Sends that fail: the results of commands over a persistent connection that
\* comes and goes, through temporary sockets that open, fail or time out.
NextSend ==
  \/ Tokens = 0 /\ KeepAliveInit("111111")
  \/ \E s \in SocketIds : SocketOpens(s)
  \/ \E s \in SocketIds : ConnectFails(s)
  \/ \E s \in SocketIds : ConnectionDrops(s)
  \/ \E t \in TimerIds : ReconnectTimerFires(t)
  \/ PingTick
  \/ \E s \in DOMAIN sockets, n \in OverlapCommands :
        /\ FreshCommand <= MaxOverlap
        /\ OnMessage(s, Encode(PacketType.COMMAND), n, "111111", TRUE)
  \/ \E c \in 1..MaxOverlap, e \in OverlapEnvs : ExecutorSettles(c, e)
  \/ \E c \in 1..MaxOverlap, e \in OverlapEnvs : SendThrows(c, e)
  \/ \E a \in 1..MaxOverlap : TempOpens(a)
  \/ \E a \in 1..MaxOverlap : TempFails(a)
  \/ \E a \in 1..MaxOverlap : TempTimeout(a)
  \/ \E a \in 1..MaxOverlap : TempCloseCompletes(a)

SpecSend == Init /\ [][NextSend]_vars

\* Packets through the codec.
NextCodec ==
  \/ \E p \in Packets : StringifyPacket(p)
  \/ ParsePacket

SpecCodec == Init /\ [][NextCodec]_vars

\* ---------------------------------------------------------------- claims
GlobalState == IF socket = NULL THEN "NULL" ELSE sockets[socket].readyState

\* An initializeWebSocket call of this step created a WebSocket.
NewConnection ==
  /\ ev'.op \in {"initializeWebSocket", "reconnectTimer"}
  /\ socket' # NULL
  /\ sockets'[socket'].readyState = "CONNECTING"

\* The COMMAND_RESULT packet the last step handed to sendWebSocketMessage:
\* it went out on the persistent socket or waits in a temporary socket.
HandedToSend ==
  IF out # <<>> THEN out[1].msg
  ELSE temps[CHOOSE a \in DOMAIN temps : temps[a].awaiter = ev.c].data

Finished(c) == commands[c].phase \in {"done", "sendFailed", "rejected"}

\* C1: a commandId never gets more than one COMMAND_RESULT, and once the
\* message handler of its COMMAND packet has ended it has got exactly one.
C1_ExactlyOneResult ==
  \A c \in DOMAIN commands :
    /\ commands[c].results <= 1
    /\ (Finished(c) => commands[c].results = 1)

\* C2: closeWebSocket cancels both timers, and from then on, until a caller
\* calls initializeWebSocket again, the reconnect timer creates no connection.
C2_NoReconnectAfterClose ==
  [][ /\ (ev'.op = "closeWebSocket" =>
            reconnectTimeout' = NULL /\ pingInterval' = NULL)
      /\ (closeCalled /\ ev'.op = "reconnectTimer" => ~NewConnection) ]_vars

\* C3: at most one persistent WebSocket is CONNECTING or OPEN.
C3_SingleLiveConnection == Cardinality(Live(sockets)) <= 1

\* C4: every pending reconnect timer is the one held in reconnectTimeout and
\* every running keepalive interval is the one held in pingInterval.
C4_NoLeakedTimer ==
  /\ DOMAIN timeouts \subseteq {reconnectTimeout}
  /\ intervals <= (IF pingInterval # NULL THEN 1 ELSE 0)

\* C5: initializeWebSocket called while `socket` is OPEN creates no socket,
\* sends nothing and leaves socket and both timers as they are (called from
\* the reconnect timer, only that timer itself is gone).
C5_ConnectWhileOpenIsNoOp ==
  [][ (ev'.op \in {"initializeWebSocket", "reconnectTimer"} /\ GlobalState = "OPEN")
      => /\ UNCHANGED <<sockets, socket, reconnectTimeout, pingInterval, intervals>>
         /\ out' = <<>>
         /\ (ev'.op = "initializeWebSocket" => timeouts' = timeouts)
         /\ DOMAIN timeouts' \subseteq DOMAIN timeouts ]_vars

C5_Witness == ev.op = "initializeWebSocket" /\ GlobalState = "OPEN" /\ intervals > 0

\* C6: the unexpected close of an OPEN connection leaves exactly one reconnect
\* attempt pending, due after 5000 ms, and closeWebSocket leaves none pending.
C6_CloseCancelsReconnect ==
  [][ /\ (ev'.op = "onclose" /\ timeouts'[reconnectTimeout'].wasOpen =>
            /\ DOMAIN timeouts' = {reconnectTimeout'}
            /\ timeouts'[reconnectTimeout'].delay = 5000)
      /\ (ev'.op = "closeWebSocket" => DOMAIN timeouts' = {}) ]_vars

\* C7: with closeWebSocket never called, a closed persistent connection is
\* always followed by a new attempt, and by an OPEN connection that has
\* registered its access code once the server accepts.
GlobalOpenRegistered ==
  /\ GlobalState = "OPEN"
  /\ sockets[socket].accessCode \in sockets[socket].registered

C8_ResultMatchesOutcome ==
  /\ ev.outcome.kind # "none" =>
       LET p == HandedToSend
           o == ev.outcome
       IN /\ p.type = "COMMAND_RESULT" /\ p.commandId = ev.c
          /\ commands[ev.c].phase \in {"done", "sending"}
          /\ (o.kind = "return" =>
                p.success /\ p.result = o.value /\ p.error = Undefined)
          /\ (o.kind = "throw" =>
                /\ ~p.success /\ p.result = Null
                /\ p.error.t = "string" /\ Len(p.error.v) > 0
                /\ p.error.v = o.message)
  /\ ev.op = "temp.onopen" =>
       /\ Len(out) = 1
       /\ out[1].msg = temps[out[1].on].data

\* A failure result went out on the persistent socket.
C8_Witness ==
  /\ ev.outcome.kind = "throw" /\ ev.outcome.message = "No active tab found"
  /\ out # <<>> /\ out[1].via = "socket" /\ ~out[1].msg.success

\* C9: a command name without a case in executeCommand ends, in the task that
\* delivered it and with no browser operation, in a COMMAND_RESULT with
\* success=false and the error "Unknown command: <name>".
C9_UnknownCommandFails ==
  (ev.outcome.kind # "none" /\ ev.command \notin Handled) =>
     /\ ev.op = "onmessage"
     /\ ev.outcome.ops = <<>>
     /\ ~HandedToSend.success
     /\ HandedToSend.commandId = ev.c
     /\ HandedToSend.error = Str("Unknown command: " \o ev.command)
     /\ Len(HandedToSend.error.v) = 17 + Len(ev.command)

C9_Witness ==
  /\ ev.command = "unknownThing" /\ out # <<>>
  /\ out[1].msg.error = Str("Unknown command: unknownThing")
  /\ commands[ev.c].results = 1

\* C10: sendWebSocketMessage sends on the persistent socket when it is OPEN
\* and resolves; otherwise it opens a temporary socket that sends the message
\* once when it opens, is closed at once, and resolves the call; the call
\* fails when that socket errors or its 5000 ms timer finds it not closed.  A
\* settled call keeps its outcome, and a settled call's socket is closing or
\* closed.
TempOk(t) ==
  /\ t.sent <= 1
  /\ t.delay = 5000
  /\ (t.promise = "pending" => t.readyState = "CONNECTING" /\ t.timer /\ t.sent = 0)
  /\ (t.promise = "resolved" => t.sent = 1)
  /\ (t.promise = "rejected" => t.sent = 0)
  /\ (t.promise # "pending" => t.readyState \in {"CLOSING", "CLOSED"})

AwaiterOk(cmds, t) ==
  t.awaiter \in DOMAIN cmds =>
    cmds[t.awaiter].phase = CASE t.promise = "pending" -> "sending"
                              [] t.promise = "resolved" -> "done"
                              [] t.promise = "rejected" -> "sendFailed"

C10_SendSettlesOnce ==
  [][ /\ \A a \in DOMAIN temps' : TempOk(temps'[a]) /\ AwaiterOk(commands', temps'[a])
      /\ \A a \in DOMAIN temps \cap DOMAIN temps' :
            /\ temps[a].promise # "pending" => temps'[a].promise = temps[a].promise
            /\ temps'[a].data = temps[a].data
      /\ \A a \in DOMAIN temps \ DOMAIN temps' : temps[a].promise # "pending"
      /\ (ev'.outcome.kind # "none" /\ GlobalState = "OPEN") =>
            /\ out' = <<[via |-> "socket", on |-> socket,
                         msg |-> ResultPacket(ev'.c, commands'[ev'.c].accessCode, ev'.outcome)]>>
            /\ temps' = temps
            /\ commands'[ev'.c].phase = "done"
      /\ (ev'.outcome.kind # "none" /\ GlobalState # "OPEN") =>
            /\ out' = <<>>
            /\ \E a \in DOMAIN temps' \ DOMAIN temps :
                  /\ temps'[a].promise = "pending"
                  /\ temps'[a].data = ResultPacket(ev'.c, commands'[ev'.c].accessCode, ev'.outcome)
                  /\ temps'[a].awaiter = ev'.c
      /\ (ev'.op = "temp.onopen" =>
            \E a \in DOMAIN temps :
               /\ out' = <<[via |-> "temp", on |-> a, msg |-> temps[a].data]>>
               /\ temps'[a].promise = "resolved")
      /\ (ev'.op \in {"temp.onerror", "temp.timeout"} =>
            /\ out' = <<>>
            /\ \A a \in DOMAIN temps' : temps'[a].promise = "pending" => temps[a] = temps'[a])
    ]_vars

\* The 5000 ms timer has fired on a call that had resolved: it stays resolved.
C10_Witness ==
  \E a \in DOMAIN temps :
    /\ temps[a].promise = "resolved" /\ ~temps[a].timer
    /\ temps[a].sent = 1 /\ temps[a].readyState = "CLOSING"

\* C11: a keepAlive run that finds an identifier in the store uses that
\* identifier, calls generateAccessCode not at all and writes nothing to the
\* store; when it began with no other run in flight (runs one after the
\* other, restarts) that is the identifier that is persisted, and the INIT
\* it sends carries it.
C11_SecondRunReusesIdentifier ==
  [][ (ev'.op = "keepAlive.got" /\ runs[ev'.c].read # Absent) =>
        /\ ev'.command = runs[ev'.c].read
        /\ generations' = generations
        /\ store' = store
        /\ ev'.c \notin DOMAIN runs'
        /\ (runs[ev'.c].alone =>
              /\ ev'.command = store
              /\ \A i \in 1..Len(out') : out'[i].msg = InitMessage(store)
              /\ \A a \in DOMAIN temps' \ DOMAIN temps :
                    temps'[a].data = InitMessage(store)) ]_vars

\* A run after the one that generated the identifier has sent it in its INIT.
C11_Witness ==
  /\ ev.op = "keepAlive.got" /\ generations = 1 /\ runs = <<>>
  /\ store # Absent /\ ev.command = store
  /\ out # <<>> /\ out[1].msg = InitMessage(store)

\* C12: generateAccessCode is called at most once, a persisted identifier is
\* never overwritten, and every registration and INIT message handed to a
\* socket carries the persisted identifier.
C12_IdentifierGeneratedOnce ==
  [][ /\ generations' <= 1
      /\ (store # Absent => store' = store)
      /\ \A i \in 1..Len(out') :
           "accessCode" \in DOMAIN out'[i].msg => out'[i].msg.accessCode = store'
    ]_vars

\* C25: when the storage area cannot be read, keepAlive rejects to its caller
\* and that run generates no identifier, writes nothing, creates no socket,
\* sets no timer and hands no INIT (or other) message to any socket; the
\* stored identifier stays what it was.
C25_StorageFailurePropagates ==
  [][ ev'.op = "keepAlive.getFails" =>
        /\ ev'.outcome.kind = "throw"
        /\ ev'.c \in DOMAIN runs /\ ev'.c \notin DOMAIN runs'
        /\ generations' = generations
        /\ store' = store
        /\ UNCHANGED <<transport, temps>>
        /\ out' = <<>> ]_vars

\* A read failed while an identifier was persisted; it is still there.
C25_Witness ==
  /\ ev.op = "keepAlive.getFails" /\ ev.outcome.kind = "throw"
  /\ store # Absent /\ generations = 1

\* C26: no close of the persistent connection (the unexpected close, or
\* closeWebSocket) touches a command or a temporary socket; a command stays
\* executing until its own execution settles; when it settles with the
\* persistent connection not OPEN, one temporary socket is created for its
\* COMMAND_RESULT, which carries its own commandId, the accessCode of its own
\* packet and the outcome of its own command, and no other command changes;
\* the packet of a temporary socket never changes, and a commandId gets at
\* most one COMMAND_RESULT.
C26_NoCancellation ==
  [][ /\ (ev'.op \in {"onclose", "closeWebSocket"} =>
            commands' = commands /\ temps' = temps)
      /\ \A c \in DOMAIN commands :
            /\ c \in DOMAIN commands'
            /\ commands'[c].accessCode = commands[c].accessCode
            /\ commands'[c].results <= 1
            /\ (commands[c].phase = "executing" /\ commands'[c] # commands[c]) =>
                  ev'.op = "executor" /\ ev'.c = c
      /\ \A a \in DOMAIN temps \cap DOMAIN temps' :
            temps'[a].data = temps[a].data /\ temps'[a].awaiter = temps[a].awaiter
      /\ (ev'.op = "temp.onopen" =>
            \E a \in DOMAIN temps :
              /\ out' = <<[via |-> "temp", on |-> a, msg |-> temps[a].data]>>
              /\ temps[a].data.commandId = temps[a].awaiter
              /\ commands'[temps[a].awaiter].results = 1)
      /\ (ev'.op = "executor" =>
            LET c == ev'.c
                data == ResultPacket(c, commands[c].accessCode, ev'.outcome)
            IN /\ commands[c].phase = "executing"
               /\ \E e \in Envs :
                     ev'.outcome = ExecuteCommand(commands[c].command, e)
               /\ \A d \in DOMAIN commands \ {c} : commands'[d] = commands[d]
               /\ IF CanSendNow
                  THEN /\ out' = <<[via |-> "socket", on |-> socket, msg |-> data]>>
                       /\ temps' = temps
                  ELSE /\ out' = <<>>
                       /\ \E a \in DOMAIN temps' \ DOMAIN temps :
                             temps' = (a :> NewTempSocket(data, c)) @@ temps)
    ]_vars

\* Two commands with different identifiers overlap; closeWebSocket has closed
\* the connection they arrived on; the first has settled and its result waits
\* in a temporary socket while the second is still executing.
C26_Witness ==
  /\ ev.op = "executor" /\ ev.c = 1 /\ closeCalled /\ ~CanSendNow
  /\ DOMAIN commands = {1, 2} /\ commands[2].phase = "executing"
  /\ commands[1].accessCode # commands[2].accessCode
  /\ \E a \in DOMAIN temps :
        /\ temps[a].awaiter = 1 /\ temps[a].promise = "pending"
        /\ temps[a].data.accessCode = commands[1].accessCode

\* C27: a send that fails is reported to its caller and leaves the transport
\* alone.  Whenever the promise of a temporary socket goes to rejected (its
\* error event, its 5000 ms timer, or the error that follows a close before it
\* opened), and whenever sending on the OPEN socket throws, the awaiting
\* processCommand ends with the failure, nothing has gone out, and `socket`,
\* the sockets, both timer handles and the pending timers are what they
\* were; no temporary socket is CLOSED or forgotten with its promise pending.
Failing(a) ==
  /\ a \in DOMAIN temps /\ temps[a].promise = "pending"
  /\ (a \in DOMAIN temps' => temps'[a].promise = "rejected")

C27_FailedSendIsReported ==
  [][ /\ \A a \in 1..(MaxOverlap + 1) :
            Failing(a) =>
              /\ ev'.op \in {"temp.onerror", "temp.timeout", "temp.onclose"}
              /\ a \in DOMAIN temps'
              /\ temps'[a].sent = 0
              /\ out' = <<>>
              /\ UNCHANGED transport
              /\ temps[a].awaiter \in DOMAIN commands =>
                    /\ commands[temps[a].awaiter].phase = "sending"
                    /\ commands'[temps[a].awaiter].phase = "sendFailed"
      /\ (ev'.op = "send.throws" =>
            /\ ev'.outcome.kind = "throw"
            /\ commands'[ev'.c].phase = "sendFailed"
            /\ out' = <<>>
            /\ UNCHANGED <<transport, temps>>)
      /\ \A a \in DOMAIN temps' :
            temps'[a].readyState = "CLOSED" => temps'[a].promise # "pending"
      /\ \A a \in DOMAIN temps \ DOMAIN temps' : temps[a].promise # "pending"
    ]_vars

\* The temporary socket of a result has timed out while the persistent
\* connection waits for its reconnect timer, which is still pending.
C27_Witness ==
  /\ ev.op = "temp.timeout"
  /\ \E a \in DOMAIN temps :
        /\ temps[a].promise = "rejected" /\ temps[a].readyState = "CLOSING"
        /\ temps[a].awaiter \in DOMAIN commands
        /\ commands[temps[a].awaiter].phase = "sendFailed"
  /\ reconnectTimeout # NULL /\ reconnectTimeout \in DOMAIN timeouts

\* ------------------------------------------------------- executor claims
Range(f) == {f[i] : i \in DOMAIN f}

\* The string s has sub as a substring.
Contains(s, sub) ==
  \E i \in 1..(Len(s) - Len(sub) + 1) : SubSeq(s, i, i + Len(sub) - 1) = sub

\* An execution ended in this step.
Ran == ev.outcome.kind # "none"

\* C13: a command with a selector whose lookup in the page matches nothing
\* ends as a failure whose error mentions "not found", never as a success.
C13_SelectorNotFoundFails ==
  (Ran /\ ev.command \in SelectorCommands /\ "page.noMatch" \in Range(ev.outcome.ops))
    => /\ ev.outcome.kind = "throw"
       /\ ~HandedToSend.success
       /\ Contains(HandedToSend.error.v, "not found")

\* C16: every command that works on a tab (all that executeCommand handles
\* but waitForTimeout and exit) fails with "No active tab found" when
\* tabs.query yields no tab, and does nothing in the browser after the query.
C16_NoActiveTabFails ==
  (Ran /\ ev.command \in Handled \ {"waitForTimeout", "exit"}
       /\ "noTab" \in Range(ev.outcome.ops))
    => /\ ev.outcome.kind = "throw"
       /\ ev.outcome.message = "No active tab found"
       /\ ev.outcome.ops = <<"tabs.query", "noTab">>
       /\ ~HandedToSend.success

\* C18: when the function given to evaluate throws in the page, the command
\* ends as a failure (success=false), never as a success result.
C18_EvaluateThrowFails ==
  (Ran /\ ev.command = "evaluate" /\ "page.fnThrows" \in Range(ev.outcome.ops))
    => /\ ev.outcome.kind = "throw"
       /\ ~HandedToSend.success

\* ---------------------------------------------------------- timing claims
\* C14: the Promise of waitForSelector that times out rejects no earlier
\* than its timeout T after it began and no later than T + 50 ms.
C14_SelectorTimeoutWindow ==
  (wait.command = "waitForSelector" /\ wait.promise = "rejected") =>
     /\ wait.value = "Timeout waiting for element: h1"
     /\ wait.at - wait.start >= wait.timeout
     /\ wait.at - wait.start <= wait.timeout + 50

\* C15: waitForNavigation on an active tab never rejects.  While it is
\* pending its listener is registered and its timer set; it settles by one
\* call of resolve, with the timed-out flag exactly if the tab had not
\* completed when it settled, and then not before the timeout had passed;
\* once settled the listener is removed, the timer is gone, and its value
\* and the number of resolve calls (one) stay as they are.
C15_NavigationWaitResolves ==
  [][ wait'.command = "waitForNavigation" =>
        /\ wait'.promise # "rejected"
        /\ (wait'.promise = "pending" =>
              wait'.listener /\ wait'.timer /\ wait'.calls = 0 /\ ~wait'.loaded)
        /\ (wait'.promise = "resolved" =>
              /\ ~wait'.listener /\ ~wait'.timer /\ wait'.calls = 1
              /\ wait'.value \in {"{success:true}", "{success:true,timedOut:true}"})
        /\ (wait.promise = "pending" /\ wait'.promise = "resolved" =>
              /\ wait'.at = now'
              /\ wait'.value = IF wait'.loaded THEN "{success:true}"
                               ELSE "{success:true,timedOut:true}"
              /\ (~wait'.loaded => wait'.at - wait'.start >= wait'.timeout)
              /\ (wait'.loaded => wait'.at - wait'.start <= wait'.timeout + MaxLate))
        /\ (wait.promise = "resolved" =>
              wait'.value = wait.value /\ wait'.at = wait.at) ]_vars

\* A 100 ms wait with no navigation has resolved with the flag.
C15_Witness ==
  /\ wait.command = "waitForNavigation" /\ wait.timeout = 100
  /\ wait.promise = "resolved" /\ wait.value = "{success:true,timedOut:true}"
  /\ ~wait.loaded /\ ~wait.listener /\ ev.op = "wait.timeout"

\* C17: goto, reload, back and forward resolve only once the tab has
\* reached status 'complete' or 30 seconds have passed since they began.
C17_NavigationWaitsForLoad ==
  (wait.command \in NavigationCommands /\ wait.promise # "pending") =>
     \/ wait.loaded
     \/ wait.at - wait.start >= 30000

\* ------------------------------------------------------- inbound claims
\* C19: a text received on the persistent socket that is not a COMMAND packet
\* starts no execution, sends nothing and leaves sockets, timers, commands
\* and temporary sockets as they are; 'pong' is dropped before any decoding.
C19_OnlyCommandsAct ==
  [][ (ev'.data # "" /\ ev'.data # Encode("COMMAND")) =>
        /\ UNCHANGED <<transport, commands, temps, identity, timing, wire>>
        /\ out' = <<>>
        /\ ev'.outcome = NoOutcome /\ ev'.c = 0
        /\ ev'.op \in {"onmessage.pong", "onmessage.other", "onmessage.error"}
        /\ (ev'.data = "pong" <=> ev'.op = "onmessage.pong")
        /\ (ev'.data \in {Encode(k) : k \in PacketKinds} =>
              ev'.op = "onmessage.other") ]_vars

\* An EXIT packet arrived on the open connection with its keepalive running.
C19_Witness ==
  /\ ev.op = "onmessage.other" /\ ev.data = Encode(PacketType.EXIT)
  /\ GlobalState = "OPEN" /\ pingInterval # NULL /\ out = <<>>

\* C20: whenever the persistent connection `socket` is OPEN (its open
\* handler has run) a keepalive interval is armed and held in pingInterval;
\* and a probe goes out only on an OPEN persistent connection.
C20_OpenHasKeepalive ==
  /\ GlobalState = "OPEN" => pingInterval # NULL /\ intervals >= 1
  /\ (ev.op = "pingInterval" /\ out # <<>>) =>
        /\ out[1].msg = [type |-> "ping"]
        /\ out[1].on = socket /\ GlobalState = "OPEN"

\* C21: a text that is no JSON, or JSON without members to read, is dropped:
\* no execution starts, nothing is sent, and sockets, timers, commands and
\* temporary sockets stay as they are; the socket it arrived on is still OPEN
\* with its handler, so a COMMAND packet arriving next is processed.
C21_MalformedIsDropped ==
  [][ ev'.data \in {"ping", "null"} =>
        /\ ev'.op = "onmessage.error"
        /\ UNCHANGED <<transport, commands, temps, identity, timing, wire>>
        /\ out' = <<>>
        /\ ev'.outcome = NoOutcome /\ ev'.c = 0
        /\ \E s \in DOMAIN sockets :
              /\ sockets[s].readyState = "OPEN"
              /\ ENABLED OnMessage(s, Encode(PacketType.COMMAND), "exit", "111111", TRUE) ]_vars

\* Text that is no JSON arrived on the open connection, before any COMMAND.
C21_Witness ==
  /\ ev.op = "onmessage.error" /\ ev.data = "ping"
  /\ GlobalState = "OPEN" /\ commands = <<>> /\ out = <<>>

\* C22: the open handler of a persistent WebSocket sends exactly one message,
\* the registration with the access code given to its initializeWebSocket
\* call, on the socket that opened, on which nothing was registered before;
\* the keepalive interval is armed in the same step, after it.
C22_RegistersOnOpen ==
  [][ ev'.op = "onopen" =>
        \A s \in DOMAIN sockets :
          (sockets[s].readyState = "CONNECTING" /\ sockets'[s].readyState = "OPEN")
            => /\ out' = <<[via |-> "socket", on |-> s,
                            msg |-> RegisterMessage(sockets[s].accessCode)]>>
               /\ sockets[s].registered = {}
               /\ sockets'[s].registered = {sockets[s].accessCode}
               /\ pingInterval' # NULL /\ intervals' >= 1 ]_vars

\* C23: every packet handed to a socket (everything but the 'ping' probe)
\* carries a type tag that is a member of enum PacketType.
C23_DeclaredKinds ==
  \A i \in 1..Len(out) :
    out[i].msg # [type |-> "ping"] =>
      out[i].msg.type \in {PacketType[k] : k \in DOMAIN PacketType}

\* --------------------------------------------------------- codec claims
\* A packet without the members whose value is undefined (an absent member
\* and an undefined one are taken to be the same).
RECURSIVE Present(_), PresentMembers(_)
Present(v) == IF v.t = "map" THEN JsObject(PresentMembers(v.v)) ELSE v

PresentMembers(ms) ==
  IF ms = <<>> THEN <<>>
  ELSE IF Head(ms).v = Undefined THEN PresentMembers(Tail(ms))
  ELSE <<Member(Head(ms).k, Present(Head(ms).v))>> \o PresentMembers(Tail(ms))

\* C24: reading the text written for a packet yields a packet equal to it
\* (up to members that are absent or undefined).
C24_RoundTrip ==
  wire.stage = "decoded" => wire.q = Present(wire.p)

\* C28: a command whose name is a member of enum CommandType is routed to a
\* handler: its execution never ends in the failure "Unknown command: <name>".
C28_EnumerationIsRouted ==
  (Ran /\ ev.command \in CommandTypes) =>
     ~(ev.outcome.kind = "throw"
       /\ ev.outcome.message = "Unknown command: " \o ev.command)

====
